---- MODULE Spec2Model ----
(***************************************************************************)
(* A model of CAssParser (rts/Rendering/Models/AssParser.cpp): the         *)
(* conversion of an imported scene tree into the engine's piece hierarchy. *)
(* Load runs LoadPiece on the root node (recursively, one piece per node), *)
(* then BuildPieceHierarchy, then CalculateModelProperties, which starts   *)
(* the recursive CalculateModelDimensions at the model's root piece.       *)
(*                                                                         *)
(* Floats are modelled by integers; a length (a square root) is kept as    *)
(* the integer under the root.  Pieces live in a heap indexed by the node  *)
(* they were built from; a deleted piece keeps its heap cell (the memory   *)
(* is freed, a pointer to it dangles).                                     *)
(***************************************************************************)
EXTENDS Integers, Sequences, FiniteSets, TLC

\* The largest number of nodes of a scene tree.
MaxNodes == 3

\* The largest number of children of the root of a scene made to test names.
MaxSiblings == 3

\* The largest number of meshes of a node of a scene made to test geometry.
MaxMeshes == 2

\* The null pointer (no piece, no node).
NULL == 0

-----------------------------------------------------------------------------
(* float3 and the rotation part of CMatrix44f *)

Vec(a, b, c) == [x |-> a, y |-> b, z |-> c]

ZeroVector == Vec(0, 0, 0)

OnesVector == Vec(1, 1, 1)

\* Initial extents of a model and of a piece: an empty, inverted box.
DEF_MIN_SIZE == Vec(10000, 10000, 10000)

DEF_MAX_SIZE == Vec(-10000, -10000, -10000)

Min2(a, b) == IF a < b THEN a ELSE b

Max2(a, b) == IF a > b THEN a ELSE b

Fabs(a) == IF a < 0 THEN -a ELSE a

VAdd(u, v) == Vec(u.x + v.x, u.y + v.y, u.z + v.z)

VSub(u, v) == Vec(u.x - v.x, u.y - v.y, u.z - v.z)

VMin(u, v) == Vec(Min2(u.x, v.x), Min2(u.y, v.y), Min2(u.z, v.z))

VMax(u, v) == Vec(Max2(u.x, v.x), Max2(u.y, v.y), Max2(u.z, v.z))

VFabs(u) == Vec(Fabs(u.x), Fabs(u.y), Fabs(u.z))

VScale(u, k) == Vec(u.x * k, u.y * k, u.z * k)

SqLength(u) == u.x * u.x + u.y * u.y + u.z * u.z

\* float3::Length(): the square root of SqLength, kept under the root.
Length(u) == [sqrtOf |-> SqLength(u)]

\* A float that is no length.
Num(k) == [num |-> k]

\* Whether the float r (a Num or a Length) has the value k.
RealEq(r, k) ==
    IF "num" \in DOMAIN r THEN r.num = k ELSE k >= 0 /\ k * k = r.sqrtOf

\* A rotation matrix by its three columns (the images of the axes).
Matrix(cx, cy, cz) == [x |-> cx, y |-> cy, z |-> cz]

IdentityMatrix == Matrix(Vec(1, 0, 0), Vec(0, 1, 0), Vec(0, 0, 1))

\* CMatrix44f::Mul(float3) of a matrix without translation.
Mul(m, v) == VAdd(VAdd(VScale(m.x, v.x), VScale(m.y, v.y)), VScale(m.z, v.z))

-----------------------------------------------------------------------------
(* LuaTable: a table is a function from its keys to their values *)

EmptyTable == [k \in {} |-> 0]

KeyExists(t, k) == k \in DOMAIN t

GetFloat(t, k, def) == IF k \in DOMAIN t THEN t[k] ELSE def

GetFloat3(t, k, def) == IF k \in DOMAIN t THEN t[k] ELSE def

GetString(t, k, def) == IF k \in DOMAIN t THEN t[k] ELSE def

SubTable(t, k) == IF k \in DOMAIN t THEN t[k] ELSE EmptyTable

-----------------------------------------------------------------------------
(* std::string: the order of std::map keys, and IntToString(i, "%02i") *)

\* The characters of the names, in ASCII order.
Ascii == "$0123456789ABCDEFGHIJKLMNOPQRSTUVWXYZabcdefghijklmnopqrstuvwxyz"

RECURSIVE CharPos(_, _)
CharPos(c, i) == IF SubSeq(Ascii, i, i) = c THEN i ELSE CharPos(c, i + 1)

\* std::less<std::string>: lexicographic comparison.
RECURSIVE StrLess(_, _)
StrLess(a, b) ==
    IF Len(b) = 0 THEN FALSE
    ELSE IF Len(a) = 0 THEN TRUE
    ELSE IF Head(a) = Head(b) THEN StrLess(Tail(a), Tail(b))
    ELSE CharPos(Head(a), 1) < CharPos(Head(b), 1)

\* The keys of a std::map in iteration order.
RECURSIVE SortedKeys(_)
SortedKeys(S) ==
    IF S = {} THEN << >>
    ELSE LET m == CHOOSE a \in S : \A b \in S \ {a} : StrLess(a, b)
         IN  <<m>> \o SortedKeys(S \ {m})

Digit(d) == SubSeq("0123456789", d + 1, d + 1)

RECURSIVE Decimal(_)
Decimal(i) == IF i < 10 THEN Digit(i) ELSE Decimal(i \div 10) \o Digit(i % 10)

\* IntToString(i, "%02i"): decimal, zero-padded to two digits.
IntToString(i) == IF i < 10 THEN "0" \o Digit(i) ELSE Decimal(i)

RECURSIVE SeqOfInts(_)
SeqOfInts(S) ==
    IF S = {} THEN << >>
    ELSE LET m == CHOOSE a \in S : \A b \in S : a <= b
         IN  <<m>> \o SeqOfInts(S \ {m})

Range(s) == {s[i] : i \in DOMAIN s}

-----------------------------------------------------------------------------
(* The program state *)

VARIABLES
    scene,       \* the imported aiScene: mRootNode, nodes, mMeshes
    modelTable,  \* the root table of the model's lua meta-file
    pc,          \* the position of Load
    stack,       \* the active calls of LoadPiece: [node, i]
    piece,       \* the heap of SAssPiece objects, by the node they were built from
    deleted,     \* the pieces that were deleted
    model,       \* the S3DModel under construction
    it,          \* BuildPieceHierarchy's iterator: a position in the sorted keys
    dimStack,    \* the active calls of CalculateModelDimensions: [piece, i]
    errorLog,    \* the L_ERROR messages logged so far
    rootCalls,   \* how often SetRootPiece was called
    dimCalls     \* the pieces CalculateModelDimensions was called for, in order

vars == <<scene, modelTable, pc, stack, piece, deleted, model, it, dimStack,
          errorLog, rootCalls, dimCalls>>

\* SAssPiece::SAssPiece()
NewPiece ==
    [name |-> "", parentName |-> "", parent |-> NULL, children |-> << >>,
     offset |-> ZeroVector, scales |-> OnesVector,
     bakedRotMatrix |-> IdentityMatrix,
     mins |-> DEF_MIN_SIZE, maxs |-> DEF_MAX_SIZE, goffset |-> ZeroVector,
     colvol |-> << >>, vertices |-> << >>, vertexDrawIndices |-> << >>,
     hasGeometryData |-> FALSE]

\* S3DModel::S3DModel()
NewModel ==
    [numPieces |-> 0, rootPiece |-> NULL, pieceMap |-> EmptyTable,
     height |-> 0, radius |-> Num(0), drawRadius |-> Num(0),
     relMidPos |-> ZeroVector, mins |-> DEF_MIN_SIZE, maxs |-> DEF_MAX_SIZE]

\* S3DModel::GetRootPiece()
GetRootPiece(m) == m.rootPiece

\* S3DModel::FindPiece(name)
FindPiece(m, name) ==
    IF name \in DOMAIN m.pieceMap THEN m.pieceMap[name] ELSE NULL

\* model->pieceMap[name] = p
PieceMapSet(map, name, p) ==
    [k \in DOMAIN map \cup {name} |-> IF k = name THEN p ELSE map[k]]

\* The heap with the cell of piece p set to rec.
HeapSet(heap, p, rec) ==
    [k \in DOMAIN heap \cup {p} |-> IF k = p THEN rec ELSE heap[k]]

Node(n) == scene.nodes[n]

-----------------------------------------------------------------------------
(* CAssParser::SetPieceName *)

\* The smallest i, counting from i, for which base + IntToString(i) is no key.
RECURSIVE FirstFreeSuffix(_, _, _)
FirstFreeSuffix(map, base, i) ==
    IF (base \o IntToString(i)) \notin DOMAIN map THEN i
    ELSE FirstFreeSuffix(map, base, i + 1)

\* SetPieceName with the suffixes counted from 1.
SetPieceName_FromOne(p, m, pieceNode) ==
    IF pieceNode.mName = "" /\ p = GetRootPiece(m) THEN "$$root$$"
    ELSE LET name == IF pieceNode.mName = "" THEN "$$piece$$"
                     ELSE pieceNode.mName
         IN  IF name \notin DOMAIN m.pieceMap THEN name
             ELSE name \o IntToString(FirstFreeSuffix(m.pieceMap, name, 1))

SetPieceName(p, m, pieceNode) ==
    IF pieceNode.mName = "" /\ p = GetRootPiece(m) THEN "$$root$$"
    ELSE LET name == IF pieceNode.mName = "" THEN "$$piece$$"
                     ELSE pieceNode.mName
         IN  IF name \notin DOMAIN m.pieceMap THEN name
             ELSE name \o IntToString(FirstFreeSuffix(m.pieceMap, name, 0))

-----------------------------------------------------------------------------
(* CAssParser::LoadPieceTransformations *)

\* S3DModelPiece::ComposeRotation with the angles r: the inputs have no
\* "rotate" keys, so r is ZeroVector and the matrix is left as it is.
ComposeRotation(m, r) == m

\* S3DModelPiece::ComposeTransform(m, ZeroVector, ZeroVector, s): the baked
\* rotation times the scaling by s, no translation; applied to v.
ComposeTransformMul(rec, s, v) ==
    Mul(rec.bakedRotMatrix, Vec(s.x * v.x, s.y * v.y, s.z * v.z))

LoadPieceTransformations(rec, isRoot, pieceNode, pieceTable) ==
    LET t   == pieceNode.mTransformation
        s0  == GetFloat3(pieceTable, "scale", t.scale)
        sx  == GetFloat(pieceTable, "scalex", s0.x)
        sy  == GetFloat(pieceTable, "scaley", s0.y)
        sz  == GetFloat(pieceTable, "scalez", s0.z)
        scales == IF sx # sy \/ sy # sz THEN Vec(sx, sx, sx) ELSE Vec(sx, sy, sz)
        o0  == GetFloat3(pieceTable, "offset", t.trans)
        offset == Vec(GetFloat(pieceTable, "offsetx", o0.x),
                      GetFloat(pieceTable, "offsety", o0.y),
                      GetFloat(pieceTable, "offsetz", o0.z))
        r0  == GetFloat3(pieceTable, "rotate", ZeroVector)
        pieceRotAngles == Vec(GetFloat(pieceTable, "rotatex", r0.x),
                              GetFloat(pieceTable, "rotatey", r0.y),
                              GetFloat(pieceTable, "rotatez", r0.z))
        quat  == t.rot
        xaxis == GetFloat3(pieceTable, "xaxis", quat.x)
        yaxis == GetFloat3(pieceTable, "yaxis", quat.y)
        zaxis == GetFloat3(pieceTable, "zaxis", quat.z)
        baked == IF /\ isRoot
                    /\ SqLength(xaxis) = SqLength(yaxis)
                    /\ SqLength(yaxis) = SqLength(zaxis)
                 THEN Matrix(xaxis, yaxis, zaxis)
                 ELSE quat
    IN  [rec EXCEPT !.scales = scales, !.offset = offset,
                    !.bakedRotMatrix = ComposeRotation(baked, pieceRotAngles)]

-----------------------------------------------------------------------------
(* CAssParser::SetModelRadiusAndHeight *)

\* SetModelRadiusAndHeight without its --model->numPieces.
SetModelRadiusAndHeight_KeepsCount(m, rec, pieceTable) ==
    IF rec.name = "SpringHeight" THEN
        [handled |-> TRUE,
         model |-> IF ~KeyExists(pieceTable, "height")
                   THEN [m EXCEPT !.height = rec.offset.y] ELSE m]
    ELSE IF rec.name = "SpringRadius" THEN
        LET m1 == IF ~KeyExists(pieceTable, "midpos")
                  THEN [m EXCEPT !.relMidPos =
                            ComposeTransformMul(rec, rec.scales, rec.offset)]
                  ELSE m
        IN  [handled |-> TRUE,
             model |-> IF ~KeyExists(pieceTable, "radius")
                       THEN [m1 EXCEPT !.radius = Num(rec.scales.x)] ELSE m1]
    ELSE [handled |-> FALSE, model |-> m]

\* The model as the function leaves it, and whether the piece was consumed.
SetModelRadiusAndHeight(m, rec, pieceTable) ==
    IF rec.name = "SpringHeight" THEN
        LET m1 == IF ~KeyExists(pieceTable, "height")
                  THEN [m EXCEPT !.height = rec.offset.y] ELSE m
        IN  [handled |-> TRUE, model |-> [m1 EXCEPT !.numPieces = @ - 1]]
    ELSE IF rec.name = "SpringRadius" THEN
        LET m1 == IF ~KeyExists(pieceTable, "midpos")
                  THEN [m EXCEPT !.relMidPos =
                            ComposeTransformMul(rec, rec.scales, rec.offset)]
                  ELSE m
            m2 == IF ~KeyExists(pieceTable, "radius")
                  THEN [m1 EXCEPT !.radius = Num(rec.scales.x)] ELSE m1
        IN  [handled |-> TRUE, model |-> [m2 EXCEPT !.numPieces = @ - 1]]
    ELSE [handled |-> FALSE, model |-> m]

-----------------------------------------------------------------------------
(* CAssParser::SetPieceParentName *)

\* SetPieceParentName with the parent linked at once, as an importer that
\* builds the hierarchy while it walks the scene tree would.
SetPieceParentName_LinksNow(rec, m, pieceNode, pieceTable) ==
    LET linked == [rec EXCEPT !.parent = pieceNode.mParent]
    IN  IF KeyExists(pieceTable, "parent") THEN
            [linked EXCEPT !.parentName = GetString(pieceTable, "parent", "")]
        ELSE IF pieceNode.mParent # NULL THEN
            IF Node(pieceNode.mParent).mParent # NULL THEN
                [linked EXCEPT !.parentName = Node(pieceNode.mParent).mName]
            ELSE
                [linked EXCEPT !.parentName = piece[GetRootPiece(m)].name]
        ELSE linked

SetPieceParentName(rec, m, pieceNode, pieceTable) ==
    IF KeyExists(pieceTable, "parent") THEN
        [rec EXCEPT !.parentName = GetString(pieceTable, "parent", "")]
    ELSE IF pieceNode.mParent # NULL THEN
        IF Node(pieceNode.mParent).mParent # NULL THEN
            [rec EXCEPT !.parentName = Node(pieceNode.mParent).mName]
        ELSE
            [rec EXCEPT !.parentName = piece[GetRootPiece(m)].name]
    ELSE rec

-----------------------------------------------------------------------------
(* CAssParser::LoadPieceGeometry *)

\* The piece-local indices of the triangles among the faces of one mesh.
RECURSIVE FaceIndices(_, _)
FaceIndices(faces, mapping) ==
    IF faces = << >> THEN << >>
    ELSE LET face == Head(faces)
             idx  == IF Len(face) # 3 THEN << >>
                     ELSE [k \in 1..3 |-> mapping[face[k] + 1]]
         IN  idx \o FaceIndices(Tail(faces), mapping)

RECURSIVE Extents(_, _, _)
Extents(verts, lo, hi) ==
    IF verts = << >> THEN [mins |-> lo, maxs |-> hi]
    ELSE Extents(Tail(verts), VMin(lo, Head(verts)), VMax(hi, Head(verts)))

\* LoadMesh with the faces' indices taken as they are, as if every mesh
\* were the piece's first.
LoadMesh_Unmapped(rec, mesh) ==
    LET mesh_vertex_mapping == [v \in 1..Len(mesh.mVertices) |-> v - 1]
        ext == Extents(mesh.mVertices, rec.mins, rec.maxs)
    IN  [rec EXCEPT !.vertices = @ \o mesh.mVertices,
                    !.mins = ext.mins, !.maxs = ext.maxs,
                    !.vertexDrawIndices =
                        @ \o FaceIndices(mesh.mFaces, mesh_vertex_mapping)]

\* One round of the loop over the node's meshes.
LoadMesh(rec, mesh) ==
    LET mesh_vertex_mapping ==
            [v \in 1..Len(mesh.mVertices) |-> Len(rec.vertices) + v - 1]
        ext == Extents(mesh.mVertices, rec.mins, rec.maxs)
    IN  [rec EXCEPT !.vertices = @ \o mesh.mVertices,
                    !.mins = ext.mins, !.maxs = ext.maxs,
                    !.vertexDrawIndices =
                        @ \o FaceIndices(mesh.mFaces, mesh_vertex_mapping)]

RECURSIVE LoadMeshes(_, _)
LoadMeshes(rec, meshList) ==
    IF meshList = << >> THEN rec
    ELSE LoadMeshes(LoadMesh(rec, scene.mMeshes[Head(meshList)]), Tail(meshList))

LoadPieceGeometry(rec, pieceNode) ==
    LET q == LoadMeshes(rec, pieceNode.mMeshes)
    IN  [q EXCEPT !.hasGeometryData = (q.vertices # << >>)]

-----------------------------------------------------------------------------
(* CAssParser::LoadPiece *)

Top(s) == s[Len(s)]

Pop(s) == SubSeq(s, 1, Len(s) - 1)

\* The stack with the loop counter of the innermost call advanced.
Advance(s) == IF s = << >> THEN s ELSE [s EXCEPT ![Len(s)].i = @ + 1]

\* The node the next call of LoadPiece is for: the scene's root node for
\* Load's call, else the next child in the loop of the innermost call.
CalledNode ==
    IF stack = << >> THEN
        IF DOMAIN piece = {} THEN scene.mRootNode ELSE NULL
    ELSE IF Top(stack).i < Len(Node(Top(stack).node).mChildren)
         THEN Node(Top(stack).node).mChildren[Top(stack).i + 1]
         ELSE NULL

\* The model after ++numPieces and SetRootPiece.
Entered(n) ==
    [model EXCEPT !.numPieces = @ + 1,
                  !.rootPiece = IF Node(n).mParent = NULL THEN n ELSE @]

\* The piece table of the piece built from node n.
PieceTable(n) ==
    SubTable(SubTable(modelTable, "pieces"), SetPieceName(n, Entered(n), Node(n)))

\* The new piece after SetPieceName and LoadPieceTransformations.
Transformed(n) ==
    LoadPieceTransformations(
        [NewPiece EXCEPT !.name = SetPieceName(n, Entered(n), Node(n))],
        n = GetRootPiece(Entered(n)), Node(n), PieceTable(n))

\* LoadPieceMarker with the marker check after the loop over the children:
\* the call goes on into the node's children.
LoadPieceMarker_Descends ==
    /\ pc = "LoadPiece"
    /\ CalledNode # NULL
    /\ LET n == CalledNode
           r == SetModelRadiusAndHeight(Entered(n), Transformed(n), PieceTable(n))
       IN  /\ r.handled
           /\ model' = r.model
           /\ piece' = HeapSet(piece, n, Transformed(n))
           /\ deleted' = deleted \cup {n}
           /\ rootCalls' = IF Node(n).mParent = NULL THEN rootCalls + 1
                           ELSE rootCalls
           /\ stack' = Append(Advance(stack), [node |-> n, i |-> 0])
    /\ UNCHANGED <<scene, modelTable, pc, it, dimStack, errorLog,
                   dimCalls>>

\* A call of LoadPiece that SetModelRadiusAndHeight ends: the piece is
\* deleted and the call returns NULL without visiting the node's children.
LoadPieceMarker ==
    /\ pc = "LoadPiece"
    /\ CalledNode # NULL
    /\ LET n == CalledNode
           r == SetModelRadiusAndHeight(Entered(n), Transformed(n), PieceTable(n))
       IN  /\ r.handled
           /\ model' = r.model
           /\ piece' = HeapSet(piece, n, Transformed(n))
           /\ deleted' = deleted \cup {n}
           /\ rootCalls' = IF Node(n).mParent = NULL THEN rootCalls + 1
                           ELSE rootCalls
           /\ stack' = Advance(stack)
           /\ pc' = IF stack = << >> THEN "BuildPieceHierarchy" ELSE pc
    /\ UNCHANGED <<scene, modelTable, it, dimStack, errorLog,
                   dimCalls>>

\* A call of LoadPiece up to its loop over the node's children.
LoadPiece ==
    /\ pc = "LoadPiece"
    /\ CalledNode # NULL
    /\ LET n == CalledNode
           r == SetModelRadiusAndHeight(Entered(n), Transformed(n), PieceTable(n))
       IN  /\ ~r.handled
           /\ model' = r.model
           /\ piece' = HeapSet(piece, n,
                          SetPieceParentName(
                              LoadPieceGeometry(Transformed(n), Node(n)),
                              r.model, Node(n), PieceTable(n)))
           /\ rootCalls' = IF Node(n).mParent = NULL THEN rootCalls + 1
                           ELSE rootCalls
           /\ stack' = Append(Advance(stack), [node |-> n, i |-> 0])
    /\ UNCHANGED <<scene, modelTable, pc, deleted, it, dimStack, errorLog,
                   dimCalls>>

\* The end of a call of LoadPiece: the piece enters the piece map.
LoadPieceReturn ==
    /\ pc = "LoadPiece"
    /\ stack # << >>
    /\ CalledNode = NULL
    /\ model' = [model EXCEPT !.pieceMap =
                     PieceMapSet(@, piece[Top(stack).node].name, Top(stack).node)]
    /\ stack' = Pop(stack)
    /\ pc' = IF Len(stack) = 1 THEN "BuildPieceHierarchy" ELSE pc
    /\ UNCHANGED <<scene, modelTable, piece, deleted, it, dimStack, errorLog,
                   rootCalls,
                   dimCalls>>

-----------------------------------------------------------------------------
(* CAssParser::BuildPieceHierarchy *)

\* PieceKeys of a container that keeps its entries in the order of the
\* pieces' nodes, not of their names.
PieceKeys_ByNode ==
    LET ids == SeqOfInts({model.pieceMap[k] : k \in DOMAIN model.pieceMap})
    IN  [i \in DOMAIN ids |->
            CHOOSE k \in DOMAIN model.pieceMap : model.pieceMap[k] = ids[i]]

\* The keys of the piece map in the order the loop visits them.
PieceKeys == SortedKeys(DOMAIN model.pieceMap)

\* Linked with a piece whose parent is missing put under the root piece.
Linked_UnderRoot(heap, p, par) ==
    LET to == IF par = NULL THEN GetRootPiece(model) ELSE par
        h  == [heap EXCEPT ![p].parent = to]
    IN  IF to = NULL THEN h
        ELSE [h EXCEPT ![to].children = Append(@, p)]

\* The heap after p was given the parent par and was appended to its children.
Linked(heap, p, par) ==
    LET h == [heap EXCEPT ![p].parent = par]
    IN  IF par = NULL THEN h
        ELSE [h EXCEPT ![par].children = Append(@, p)]

\* BuildPieceHierarchy without the continue of line 661: a piece with a
\* declared parent goes on to be linked under the root piece as well.
BuildPieceHierarchy_FallsThrough ==
    /\ pc = "BuildPieceHierarchy"
    /\ it <= Len(PieceKeys)
    /\ LET p == model.pieceMap[PieceKeys[it]]
       IN  IF p = GetRootPiece(model) THEN
               UNCHANGED <<piece, errorLog>>
           ELSE IF piece[p].parentName # "" THEN
               LET par == FindPiece(model, piece[p].parentName)
               IN  /\ piece' = Linked(Linked(piece, p, par), p,
                                      GetRootPiece(model))
                   /\ errorLog' =
                        IF par = NULL
                        THEN errorLog \cup {[msg |-> "Missing piece",
                                             parentName |-> piece[p].parentName,
                                             name |-> piece[p].name]}
                        ELSE errorLog
           ELSE
               /\ piece' = Linked(piece, p, GetRootPiece(model))
               /\ errorLog' =
                    IF GetRootPiece(model) = NULL
                    THEN errorLog \cup {[msg |-> "Missing root piece",
                                         parentName |-> "", name |-> ""]}
                    ELSE errorLog
    /\ it' = it + 1
    /\ UNCHANGED <<scene, modelTable, pc, stack, deleted, model, dimStack,
                   rootCalls, dimCalls>>

\* One round of the loop over the piece map.
BuildPieceHierarchy ==
    /\ pc = "BuildPieceHierarchy"
    /\ it <= Len(PieceKeys)
    /\ LET p == model.pieceMap[PieceKeys[it]]
       IN  IF p = GetRootPiece(model) THEN
               UNCHANGED <<piece, errorLog>>
           ELSE IF piece[p].parentName # "" THEN
               LET par == FindPiece(model, piece[p].parentName)
               IN  /\ piece' = Linked(piece, p, par)
                   /\ errorLog' =
                        IF par = NULL
                        THEN errorLog \cup {[msg |-> "Missing piece",
                                             parentName |-> piece[p].parentName,
                                             name |-> piece[p].name]}
                        ELSE errorLog
           ELSE
               /\ piece' = Linked(piece, p, GetRootPiece(model))
               /\ errorLog' =
                    IF GetRootPiece(model) = NULL
                    THEN errorLog \cup {[msg |-> "Missing root piece",
                                         parentName |-> "", name |-> ""]}
                    ELSE errorLog
    /\ it' = it + 1
    /\ UNCHANGED <<scene, modelTable, pc, stack, deleted, model, dimStack,
                   rootCalls,
                   dimCalls>>

\* The loop is over: Load goes on to CalculateModelProperties.
BuildPieceHierarchyReturn ==
    /\ pc = "BuildPieceHierarchy"
    /\ it > Len(PieceKeys)
    /\ pc' = "CalculateModelProperties"
    /\ UNCHANGED <<scene, modelTable, stack, piece, deleted, model, it,
                   dimStack, errorLog, rootCalls,
                   dimCalls>>

-----------------------------------------------------------------------------
(* CAssParser::CalculateModelDimensions, CAssParser::CalculateModelProperties *)

\* 0.5f * a
Half(a) == a \div 2

\* The piece the next call of CalculateModelDimensions is for: the model's
\* root piece for CalculateModelProperties' call, else the next child in the
\* loop of the innermost call.
CalledPiece ==
    IF pc = "CalculateModelProperties" THEN model.rootPiece
    ELSE IF /\ pc = "CalculateModelDimensions"
            /\ dimStack # << >>
            /\ Top(dimStack).i < Len(piece[Top(dimStack).piece].children)
         THEN piece[Top(dimStack).piece].children[Top(dimStack).i + 1]
         ELSE NULL

\* Goffset without the parent's goffset: the piece's own offset only.
Goffset_Local(p) ==
    ComposeTransformMul(piece[p], piece[p].scales, piece[p].offset)

\* piece->goffset as CalculateModelDimensions computes it for piece p.
Goffset(p) ==
    VAdd(ComposeTransformMul(piece[p], piece[p].scales, piece[p].offset),
         IF piece[p].parent # NULL THEN piece[piece[p].parent].goffset
         ELSE ZeroVector)

\* CollisionVolume centered at the piece's origin, whatever its bounds.
CollisionVolume_AtOrigin(type, scales, offsets) ==
    [type |-> type, scales |-> scales, offsets |-> ZeroVector]

\* new CollisionVolume("box", maxs - mins, (maxs + mins) * 0.5f)
CollisionVolume(type, scales, offsets) ==
    [type |-> type, scales |-> scales, offsets |-> offsets]

\* CalculateModelDimensions with the model's bounds taken from the piece's
\* local bounds, not moved by its goffset.
CalculateModelDimensions_LocalBounds ==
    /\ pc \in {"CalculateModelProperties", "CalculateModelDimensions"}
    /\ CalledPiece # NULL
    /\ \E p \in {CalledPiece} : \E g \in {Goffset(p)} :
           /\ piece' = [piece EXCEPT
                 ![p].goffset = g,
                 ![p].colvol = <<CollisionVolume("box",
                     VSub(piece[p].maxs, piece[p].mins),
                     Vec(Half(piece[p].maxs.x + piece[p].mins.x),
                         Half(piece[p].maxs.y + piece[p].mins.y),
                         Half(piece[p].maxs.z + piece[p].mins.z)))>>]
           /\ model' = [model EXCEPT
                 !.mins = VMin(piece[p].mins, @),
                 !.maxs = VMax(piece[p].maxs, @)]
           /\ dimStack' = Append(Advance(dimStack), [piece |-> p, i |-> 0])
           /\ dimCalls' = Append(dimCalls, p)
    /\ pc' = "CalculateModelDimensions"
    /\ UNCHANGED <<scene, modelTable, stack, deleted, it, errorLog, rootCalls>>

\* A call of CalculateModelDimensions up to its loop over the children.  A
\* call for a deleted piece reads and writes the freed cell.
CalculateModelDimensions ==
    /\ pc \in {"CalculateModelProperties", "CalculateModelDimensions"}
    /\ CalledPiece # NULL
    /\ \E p \in {CalledPiece} : \E g \in {Goffset(p)} :
           /\ piece' = [piece EXCEPT
                 ![p].goffset = g,
                 ![p].colvol = <<CollisionVolume("box",
                     VSub(piece[p].maxs, piece[p].mins),
                     Vec(Half(piece[p].maxs.x + piece[p].mins.x),
                         Half(piece[p].maxs.y + piece[p].mins.y),
                         Half(piece[p].maxs.z + piece[p].mins.z)))>>]
           /\ model' = [model EXCEPT
                 !.mins = VMin(VAdd(g, piece[p].mins), @),
                 !.maxs = VMax(VAdd(g, piece[p].maxs), @)]
           /\ dimStack' = Append(Advance(dimStack), [piece |-> p, i |-> 0])
           /\ dimCalls' = Append(dimCalls, p)
    /\ pc' = "CalculateModelDimensions"
    /\ UNCHANGED <<scene, modelTable, stack, deleted, it, errorLog, rootCalls>>

\* The end of a call of CalculateModelDimensions.
CalculateModelDimensionsReturn ==
    /\ pc = "CalculateModelDimensions"
    /\ dimStack # << >>
    /\ CalledPiece = NULL
    /\ dimStack' = Pop(dimStack)
    /\ pc' = IF Len(dimStack) = 1 THEN "ModelProperties" ELSE pc
    /\ UNCHANGED <<scene, modelTable, stack, piece, deleted, model, it,
                   errorLog, rootCalls,
                   dimCalls>>

\* CalculateModelDimensions is called for a deleted root piece: the access
\* to the freed piece may also end the program.
UseAfterFree ==
    /\ pc = "CalculateModelProperties"
    /\ model.rootPiece \in deleted
    /\ pc' = "crashed"
    /\ UNCHANGED <<scene, modelTable, stack, piece, deleted, model, it,
                   dimStack, errorLog, rootCalls,
                   dimCalls>>

\* CalculateModelProperties with the "mins" and "maxs" of the meta-file read
\* before the radius and the height are taken from the bounds.
CalculateModelProperties_OverridesFirst ==
    /\ pc = "ModelProperties"
    /\ LET midY   == Half(model.maxs.y + model.mins.y)
           mins   == GetFloat3(modelTable, "mins", model.mins)
           maxs   == GetFloat3(modelTable, "maxs", model.maxs)
           radius == GetFloat(modelTable, "radius",
                        Length(VMax(VFabs(maxs), VFabs(mins))))
       IN  model' = [model EXCEPT
              !.relMidPos = GetFloat3(modelTable, "midpos",
                                [model.relMidPos EXCEPT !.y = midY]),
              !.radius = radius,
              !.height = GetFloat(modelTable, "height", maxs.y),
              !.mins = mins,
              !.maxs = maxs,
              !.drawRadius = radius]
    /\ pc' = "done"
    /\ UNCHANGED <<scene, modelTable, stack, piece, deleted, it, dimStack,
                   errorLog, rootCalls, dimCalls>>

\* CalculateModelProperties after its call of CalculateModelDimensions.
CalculateModelProperties ==
    /\ pc = "ModelProperties"
    /\ LET midY   == Half(model.maxs.y + model.mins.y)
           radius == GetFloat(modelTable, "radius",
                        Length(VMax(VFabs(model.maxs), VFabs(model.mins))))
       IN  model' = [model EXCEPT
              !.relMidPos = GetFloat3(modelTable, "midpos",
                                [model.relMidPos EXCEPT !.y = midY]),
              !.radius = radius,
              !.height = GetFloat(modelTable, "height", model.maxs.y),
              !.mins = GetFloat3(modelTable, "mins", model.mins),
              !.maxs = GetFloat3(modelTable, "maxs", model.maxs),
              !.drawRadius = radius]
    /\ pc' = "done"
    /\ UNCHANGED <<scene, modelTable, stack, piece, deleted, it, dimStack,
                   errorLog, rootCalls,
                   dimCalls>>

-----------------------------------------------------------------------------
(* The scenes and meta-files Load is run on *)

\* The parents of the nodes 2..n of a tree whose root is node 1: every node
\* comes after its parent.
Parents(n) == {par \in [2..n -> 1..n] : \A i \in 2..n : par[i] < i}

\* An aiNode's decomposed mTransformation.
Transformation(scale, rot, trans) ==
    [scale |-> scale, rot |-> rot, trans |-> trans]

\* The scene's meshes: a triangle and a line over three vertices; two
\* triangles over three vertices off the origin; a quad and a point over
\* four vertices; a mesh without vertices.
SceneMeshes ==
    << [mVertices |-> <<Vec(-1, -1, -1), Vec(1, 1, 1), Vec(1, -1, 1)>>,
        mFaces |-> << <<0, 1, 2>>, <<0, 1>> >>],
       [mVertices |-> <<Vec(0, 0, 0), Vec(2, 4, 2), Vec(2, 0, 0)>>,
        mFaces |-> << <<2, 1, 0>>, <<0, 2, 1>> >>],
       [mVertices |-> <<Vec(0, 0, 0), Vec(2, 0, 0), Vec(2, 2, 0), Vec(0, 2, 0)>>,
        mFaces |-> << <<0, 1, 2, 3>>, <<3>> >>],
       [mVertices |-> << >>, mFaces |-> << >>] >>

\* An aiNode without its place in the tree.
NodeOf(name, trans, meshes) ==
    [mName |-> name, mTransformation |-> trans, mMeshes |-> meshes]

\* The scene tree of n nodes with the given parents and nodes.
Scene(n, par, nodes) ==
    [mRootNode |-> 1,
     mMeshes |-> SceneMeshes,
     nodes |-> [k \in 1..n |->
        [mName |-> nodes[k].mName,
         mParent |-> IF k = 1 THEN NULL ELSE par[k],
         mChildren |-> SeqOfInts({c \in 2..n : par[c] = k}),
         mTransformation |-> nodes[k].mTransformation,
         mMeshes |-> nodes[k].mMeshes]]]

\* Load up to its call of LoadPiece, for a scene tree of the given nodes and
\* one of the given meta-files.
InitWith(Nodes, ModelTables) ==
    /\ \E n \in 1..MaxNodes :
       \E par \in Parents(n) :
       \E nodes \in [1..n -> Nodes] :
          scene = Scene(n, par, nodes)
    /\ modelTable \in ModelTables
    /\ pc = "LoadPiece"
    /\ stack = << >>
    /\ piece = EmptyTable
    /\ deleted = {}
    /\ model = NewModel
    /\ it = 1
    /\ dimStack = << >>
    /\ errorLog = {}
    /\ rootCalls = 0
    /\ dimCalls = << >>

NoPieceTables == [pieces |-> EmptyTable]

Unmoved == Transformation(OnesVector, IdentityMatrix, Vec(0, 2, 0))

\* Scenes of any names, without meta-file.
Init ==
    InitWith({NodeOf(name, Unmoved, << >>) :
                 name \in {"", "A", "B", "SpringHeight", "SpringRadius"}},
             {NoPieceTables})

\* The piece tables that give some of the pieces "A" and "B" a "parent".
ParentTables ==
    UNION {[D -> {[parent |-> v] : v \in {"", "A", "B", "Z"}}] :
              D \in SUBSET {"A", "B"}}

\* Scenes with meta-files that declare parents.
InitMeta ==
    InitWith({NodeOf(name, Unmoved, << >>) :
                 name \in {"A", "B", "SpringHeight"}},
             {[pieces |-> t] : t \in ParentTables})

\* The table with the key k, and the table without it.
Optional(k, v) == {EmptyTable, [x \in {k} |-> v]}

\* Meta-files that give or leave out the model's "height" and "radius" and
\* the same keys of the marker pieces.
MarkerTables ==
    {h @@ r @@ [pieces |-> ph @@ pr] :
        h \in Optional("height", 7), r \in Optional("radius", Num(5)),
        ph \in Optional("SpringHeight", [height |-> 9]),
        pr \in Optional("SpringRadius", [radius |-> 4])}

\* Scenes with a piece of geometry and the two marker nodes.
InitMarker ==
    InitWith({NodeOf("A", Unmoved, <<1>>),
              NodeOf("SpringHeight",
                     Transformation(OnesVector, IdentityMatrix, Vec(0, 42, 0)),
                     << >>),
              NodeOf("SpringRadius",
                     Transformation(Vec(3, 1, 1), IdentityMatrix, Vec(1, 0, 0)),
                     << >>)},
             MarkerTables)

\* A quarter turn about the y axis, doubled in size, away from the origin.
Turned ==
    Transformation(Vec(2, 2, 2),
                   Matrix(Vec(0, 0, -1), Vec(0, 1, 0), Vec(1, 0, 0)),
                   Vec(1, 2, 3))

Shifted == Transformation(OnesVector, IdentityMatrix, Vec(4, 0, -2))

\* The piece tables that declare for "B" no parent, a piece of the scene,
\* itself or a piece that does not exist, and those that declare "A" and "B"
\* as each other's parent.
DimTables ==
    {EmptyTable, [A |-> [parent |-> "B"], B |-> [parent |-> "A"]]}
        \cup {[B |-> [parent |-> v]] : v \in {"A", "B", "Z"}}

\* Scenes of pieces with geometry and transformations of their own, with
\* meta-files that declare parents.
InitDims ==
    InitWith({NodeOf("A", Turned, <<1>>), NodeOf("B", Unmoved, <<2>>),
              NodeOf("C", Shifted, <<1>>),
              NodeOf("SpringHeight", Unmoved, << >>)},
             {[pieces |-> t] : t \in DimTables})

\* Meta-files that give or leave out the model's "height", "radius", "mins"
\* and "maxs".
PropertyTables ==
    {h @@ r @@ lo @@ hi @@ NoPieceTables :
        h \in Optional("height", 7), r \in Optional("radius", Num(5)),
        lo \in Optional("mins", Vec(-9, -8, -9)),
        hi \in Optional("maxs", Vec(9, 8, 9))}

\* Scenes of pieces with geometry, with meta-files that override the model's
\* properties.
InitProperties ==
    InitWith({NodeOf("A", Turned, <<1>>), NodeOf("B", Unmoved, <<2>>),
              NodeOf("SpringHeight", Unmoved, << >>)},
             PropertyTables)

\* Scenes of a root node with up to MaxSiblings children, of names that
\* meet each other and each other's suffixed forms, without meta-file.
InitNames ==
    /\ \E n \in 1..(MaxSiblings + 1) :
       \E nodes \in [1..n -> {NodeOf(name, Unmoved, << >>) :
                                 name \in {"", "A", "A00", "SpringHeight"}}] :
          scene = Scene(n, [k \in 2..n |-> 1], nodes)
    /\ modelTable = NoPieceTables
    /\ pc = "LoadPiece"
    /\ stack = << >>
    /\ piece = EmptyTable
    /\ deleted = {}
    /\ model = NewModel
    /\ it = 1
    /\ dimStack = << >>
    /\ errorLog = {}
    /\ rootCalls = 0
    /\ dimCalls = << >>

\* The lists of up to MaxMeshes of the scene's meshes.
MeshLists ==
    UNION {[1..k -> DOMAIN SceneMeshes] : k \in 0..MaxMeshes}

\* Scenes of a root node alone or with one child, the nodes with any of the
\* lists of meshes, without meta-file.
InitGeometry ==
    /\ \E n \in {1, 2} :
       \E nodes \in [1..n -> {NodeOf("A", Unmoved, ml) : ml \in MeshLists}
                               \cup {NodeOf("SpringHeight", Unmoved, << >>)}] :
          scene = Scene(n, [k \in 2..n |-> 1], nodes)
    /\ modelTable = NoPieceTables
    /\ pc = "LoadPiece"
    /\ stack = << >>
    /\ piece = EmptyTable
    /\ deleted = {}
    /\ model = NewModel
    /\ it = 1
    /\ dimStack = << >>
    /\ errorLog = {}
    /\ rootCalls = 0
    /\ dimCalls = << >>

Next ==
    \/ LoadPieceMarker
    \/ LoadPiece
    \/ LoadPieceReturn
    \/ BuildPieceHierarchy
    \/ BuildPieceHierarchyReturn
    \/ CalculateModelDimensions
    \/ CalculateModelDimensionsReturn
    \/ UseAfterFree
    \/ CalculateModelProperties

Spec == Init /\ [][Next]_vars

SpecMeta == InitMeta /\ [][Next]_vars

SpecMarker == InitMarker /\ [][Next]_vars

SpecDims == InitDims /\ [][Next]_vars

SpecProperties == InitProperties /\ [][Next]_vars

SpecNames == InitNames /\ [][Next]_vars

SpecGeometry == InitGeometry /\ [][Next]_vars

\* CalculateModelDimensions is sequential code: a call that can be made is
\* made, and a call whose loop is over returns.
SpecDimsFair ==
    /\ InitDims
    /\ [][Next]_vars
    /\ WF_vars(CalculateModelDimensions)
    /\ WF_vars(CalculateModelDimensionsReturn)

-----------------------------------------------------------------------------
(* Properties *)

\* The pieces that were created and not deleted.
Live == DOMAIN piece \ deleted

\* The pieces the piece map holds.
MapPieces == {model.pieceMap[k] : k \in DOMAIN model.pieceMap}

\* LoadPiece has returned for the root node.
Built == pc # "LoadPiece"

\* BuildPieceHierarchy has returned.
AfterHierarchy ==
    pc \in {"CalculateModelProperties", "CalculateModelDimensions",
            "ModelProperties", "done", "crashed"}

Occurrences(seq, p) == Cardinality({i \in DOMAIN seq : seq[i] = p})

\* The piece BuildPieceHierarchy looks up as the parent of p.
ResolvedParent(p) ==
    IF piece[p].parentName # "" THEN FindPiece(model, piece[p].parentName)
    ELSE GetRootPiece(model)

\* "Missing piece '..' declared as parent of '..'" was logged for p.
MissingLogged(p) ==
    \E e \in errorLog : e.msg = "Missing piece" /\ e.name = piece[p].name

\* The pieces reached from those of S by following child links.
RECURSIVE ReachFrom(_)
ReachFrom(S) ==
    LET T == S \cup UNION {Range(piece[q].children) : q \in S}
    IN  IF T = S THEN S ELSE ReachFrom(T)

\* The piece table of the piece p.
PieceTableOf(p) == SubTable(SubTable(modelTable, "pieces"), piece[p].name)

\* The proper ancestors of node n in the scene tree.
RECURSIVE Ancestors(_)
Ancestors(n) ==
    IF Node(n).mParent = NULL THEN {}
    ELSE {Node(n).mParent} \cup Ancestors(Node(n).mParent)

\* The nodes below a node whose piece was consumed as a marker.
Discarded == {n \in DOMAIN scene.nodes : Ancestors(n) \cap deleted # {}}

\* C1: after the Piece Builder pass no two live pieces of the model carry
\* the same name.  (Fails: a piece enters the piece map only when its call
\* returns, so a descendant does not see the names of its ancestors.)
C1_UniqueNames ==
    Built => \A p, q \in Live : p # q => piece[p].name # piece[q].name

\* C2: after the Piece Builder pass numPieces is the size of the piece map,
\* and every live piece is the value of exactly one entry, the one keyed by
\* its name.  (Fails with C1: the ancestor's entry replaces the descendant's.)
C2_MapHoldsLivePieces ==
    Built =>
        /\ model.numPieces = Cardinality(DOMAIN model.pieceMap)
        /\ \A p \in Live :
              {k \in DOMAIN model.pieceMap : model.pieceMap[k] = p}
                  = {piece[p].name}

\* C3: after BuildPieceHierarchy every non-root piece of the piece map is
\* exactly once among the children of its resolved parent, and every piece of
\* the map is reached from the root and lies on no cycle of child links, but
\* for the pieces whose parent was logged as missing.  (Fails: a declared
\* parent may be the piece itself.)
C3_SingleTree ==
    AfterHierarchy =>
        \A p \in MapPieces :
            MissingLogged(p) \/
                /\ p # GetRootPiece(model) =>
                      Occurrences(piece[ResolvedParent(p)].children, p) = 1
                /\ p \in ReachFrom({GetRootPiece(model)})
                /\ p \notin ReachFrom(Range(piece[p].children))

\* C4: after BuildPieceHierarchy the parent of a piece that was built from a
\* non-root node and has no "parent" key is the piece built from the node's
\* parent node; stated for the scenes whose pieces got distinct names, where
\* every live piece is in the piece map.  (Fails: the parent is looked up by
\* the parent node's own name, not by the name its piece was given.)
C4_ImporterParent ==
    (/\ AfterHierarchy
     /\ \A p, q \in Live : p # q => piece[p].name # piece[q].name)
        => \A n \in Live :
              (Node(n).mParent # NULL /\ ~KeyExists(PieceTableOf(n), "parent"))
                  => piece[n].parent = Node(n).mParent

\* The next step is the visit of a node whose piece gets a marker's name.
MarkerVisit ==
    /\ pc = "LoadPiece"
    /\ CalledNode # NULL
    /\ SetPieceName(CalledNode, Entered(CalledNode), Node(CalledNode))
          \in {"SpringHeight", "SpringRadius"}

\* C5: the visit of a node named "SpringHeight" or "SpringRadius" leaves
\* numPieces and the piece map as they were; after Load no marker is found
\* by FindPiece, none is in the piece map, and numPieces counts none.
C5_MarkerNetZero ==
    /\ [][MarkerVisit => /\ model'.numPieces = model.numPieces
                         /\ model'.pieceMap = model.pieceMap]_vars
    /\ [](pc = "done" =>
            /\ \A d \in deleted :
                  /\ FindPiece(model, piece[d].name) = NULL
                  /\ d \notin MapPieces
            /\ model.numPieces = Cardinality(Live))

\* Load has returned a model with pieces, after a marker was consumed.
C5_Witness ==
    /\ pc = "done"
    /\ model.numPieces > 0
    /\ \E d \in deleted : piece[d].name = "SpringHeight"

\* C6: when no "height" key is defined, the model Load returns has the
\* height of the "SpringHeight" node's offset Y.  (Fails: the height the
\* marker sets is overwritten by CalculateModelProperties.)
C6_MarkerHeight ==
    (/\ pc = "done"
     /\ model.rootPiece \notin deleted
     /\ ~KeyExists(modelTable, "height")
     /\ ~KeyExists(SubTable(SubTable(modelTable, "pieces"), "SpringHeight"),
                   "height"))
        => \A d \in deleted :
              piece[d].name = "SpringHeight" =>
                  model.height = piece[d].offset.y

\* C7: when no "radius" key is defined, the model Load returns has the
\* radius of the "SpringRadius" node's scale.  (Fails as C6 does.)
C7_MarkerRadius ==
    (/\ pc = "done"
     /\ model.rootPiece \notin deleted
     /\ ~KeyExists(modelTable, "radius")
     /\ ~KeyExists(SubTable(SubTable(modelTable, "pieces"), "SpringRadius"),
                   "radius"))
        => \A d \in deleted :
              piece[d].name = "SpringRadius" =>
                  RealEq(model.radius, piece[d].scales.x)

\* C8: no node below a consumed marker is ever visited: it gets no piece,
\* is not counted in numPieces and enters no entry of the piece map; every
\* other node is visited.
C8_SubtreeDiscarded ==
    /\ \A n \in Discarded : n \notin DOMAIN piece /\ n \notin MapPieces
    /\ model.numPieces = Cardinality(DOMAIN piece) - Cardinality(deleted)
    /\ Built => DOMAIN piece = DOMAIN scene.nodes \ Discarded

\* Load has returned a model with pieces, and a marker had nodes below it.
C8_Witness ==
    /\ pc = "done"
    /\ model.numPieces > 0
    /\ Discarded # {}

\* C9: SetRootPiece is called exactly once, and when the bounds pass starts
\* the root piece is live, in the piece map and without parent.  (Fails for
\* a root node with a marker's name: the root piece was deleted.)
C9_RootPiece ==
    pc = "CalculateModelProperties" =>
        /\ rootCalls = 1
        /\ GetRootPiece(model) \in Live
        /\ GetRootPiece(model) \in MapPieces
        /\ piece[GetRootPiece(model)].parent = NULL

\* The declared parent of the non-root piece p is no key of the piece map.
MissingParent(p) ==
    /\ p # GetRootPiece(model)
    /\ piece[p].parentName # ""
    /\ piece[p].parentName \notin DOMAIN model.pieceMap

\* C10: BuildPieceHierarchy leaves a piece whose declared parent is missing
\* with a null parent and among no piece's children, keeps it in the piece
\* map, changes neither the map nor numPieces, logs the error and links
\* every other piece.
C10_MissingParent ==
    /\ [](AfterHierarchy =>
            \A p \in MapPieces \ {GetRootPiece(model)} :
                IF MissingParent(p)
                THEN /\ piece[p].parent = NULL
                     /\ \A q \in DOMAIN piece :
                           Occurrences(piece[q].children, p) = 0
                     /\ MissingLogged(p)
                ELSE /\ piece[p].parent = ResolvedParent(p)
                     /\ Occurrences(piece[ResolvedParent(p)].children, p) = 1)
    /\ [][pc = "BuildPieceHierarchy" =>
            /\ model' = model
            /\ pc' \in {"BuildPieceHierarchy", "CalculateModelProperties"}]_vars

\* Load has returned; one piece's parent was missing, another was linked.
C10_Witness ==
    /\ pc = "done"
    /\ \E p, q \in MapPieces \ {GetRootPiece(model)} :
          /\ MissingParent(p)
          /\ ~MissingParent(q)
          /\ piece[q].parent # NULL

-----------------------------------------------------------------------------
(* The passes of Load *)

\* The parent back-reference and the child sequence of the piece p in the
\* heap h; a piece not yet created has neither.
Edges(h, p) ==
    IF p \in DOMAIN h THEN <<h[p].parent, h[p].children>>
    ELSE <<NULL, << >> >>

\* The pass of Load a position belongs to: the Piece Builder, the hierarchy
\* linker, the bounds pass and the model properties, the end.
PassOf(at) ==
    CASE at = "LoadPiece" -> 1
      [] at = "BuildPieceHierarchy" -> 2
      [] at \in {"CalculateModelProperties", "CalculateModelDimensions",
                 "ModelProperties"} -> 3
      [] OTHER -> 4

\* C11: no parent back-reference is set and no child sequence is appended to
\* until LoadPiece has returned for the root node; every edge is made by a
\* step of BuildPieceHierarchy, which starts when no call of LoadPiece is
\* active any more and every node not discarded has its piece, and Load never
\* goes back to an earlier pass, so CalculateModelProperties comes after it.
C11_EdgesByHierarchyPass ==
    /\ [](pc = "LoadPiece" =>
            \A p \in DOMAIN piece : Edges(piece, p) = Edges(EmptyTable, p))
    /\ [](pc = "BuildPieceHierarchy" =>
            /\ stack = << >>
            /\ DOMAIN piece = DOMAIN scene.nodes \ Discarded
            /\ dimCalls = << >>)
    /\ [][(\E p \in DOMAIN piece' : Edges(piece', p) # Edges(piece, p)) =>
             pc = "BuildPieceHierarchy" /\ pc' = "BuildPieceHierarchy"]_vars
    /\ [][PassOf(pc') >= PassOf(pc)]_vars

\* Load has ended with a piece linked under a parent.
C11_Witness ==
    /\ pc = "done"
    /\ \E p \in DOMAIN piece :
          piece[p].parent # NULL /\ p \in Range(piece[piece[p].parent].children)

-----------------------------------------------------------------------------
(* The bounds pass *)

\* CalculateModelDimensions has returned for the root piece.
AfterDimensions == pc \in {"ModelProperties", "done"}

\* The pieces reached from the root piece by child links.
Reachable == ReachFrom({GetRootPiece(model)})

\* The piece's scale-rotation transform applied to its local offset.
OwnOffset(p) ==
    Mul(piece[p].bakedRotMatrix,
        Vec(piece[p].scales.x * piece[p].offset.x,
            piece[p].scales.y * piece[p].offset.y,
            piece[p].scales.z * piece[p].offset.z))

\* The sum of OwnOffset over p and the pieces above it.
RECURSIVE SumOfOffsets(_)
SumOfOffsets(p) ==
    IF piece[p].parent = NULL THEN OwnOffset(p)
    ELSE VAdd(OwnOffset(p), SumOfOffsets(piece[p].parent))

\* C12: after CalculateModelDimensions the goffset of every piece reached
\* from the root is the sum, over the piece and its ancestors up to the root,
\* of each piece's scale-rotation transform applied to its own offset; and a
\* call of CalculateModelDimensions for a piece with a parent comes after the
\* call for that parent.
C12_GoffsetIsSumOverAncestors ==
    /\ [](AfterDimensions =>
            \A p \in Reachable : piece[p].goffset = SumOfOffsets(p))
    /\ [][dimCalls' # dimCalls =>
             LET p == dimCalls'[Len(dimCalls')]
             IN  piece[p].parent # NULL =>
                     piece[p].parent \in Range(dimCalls)]_vars

\* The bounds pass has ended for a chain of three pieces with offsets that
\* add up to something else than each of the three.
C12_Witness ==
    /\ pc = "done"
    /\ \E p \in Reachable :
          /\ piece[p].parent # NULL
          /\ piece[piece[p].parent].parent # NULL
          /\ piece[p].goffset \notin
                {OwnOffset(p), piece[piece[p].parent].goffset,
                 piece[piece[piece[p].parent].parent].goffset}
          /\ piece[piece[p].parent].goffset # OwnOffset(piece[p].parent)

\* The least and the greatest of a set of numbers.
Least(S) == CHOOSE a \in S : \A b \in S : a <= b

Greatest(S) == CHOOSE a \in S : \A b \in S : a >= b

\* The component-wise minimum and maximum of a set of vectors.
VLeast(V) ==
    Vec(Least({v.x : v \in V}), Least({v.y : v \in V}), Least({v.z : v \in V}))

VGreatest(V) ==
    Vec(Greatest({v.x : v \in V}), Greatest({v.y : v \in V}),
        Greatest({v.z : v \in V}))

\* The local bounds of the pieces of S, each moved by the piece's goffset.
MovedMins(S) == {VAdd(piece[p].goffset, piece[p].mins) : p \in S}

MovedMaxs(S) == {VAdd(piece[p].goffset, piece[p].maxs) : p \in S}

\* The bounds pass has ended and CalculateModelProperties has not yet read
\* the meta-file.
BoundsDone == pc = "ModelProperties"

\* C13 as claimed: after the bounds pass the model's mins and maxs are the
\* component-wise minimum of goffset + mins and maximum of goffset + maxs
\* over every piece of the piece map.
C13_BoundsOverPieceMap ==
    BoundsDone /\ MapPieces # {} =>
        /\ model.mins = VLeast(MovedMins(MapPieces))
        /\ model.maxs = VGreatest(MovedMaxs(MapPieces))

\* C13, amended: after the bounds pass the model's mins and maxs are the
\* component-wise minimum and maximum of the model's initial bounds and of
\* goffset + mins and goffset + maxs over the pieces reached from the root
\* piece by child links, whatever the order of the siblings; a piece of the
\* piece map that is not reached adds nothing.
C13_BoundsOverHierarchy ==
    BoundsDone =>
        /\ model.mins = VLeast({NewModel.mins} \cup MovedMins(Reachable))
        /\ model.maxs = VGreatest({NewModel.maxs} \cup MovedMaxs(Reachable))

\* The bounds pass has ended for a root with a child, with a piece of the
\* piece map outside the hierarchy whose bounds the model's do not hold.
C13_Witness ==
    /\ BoundsDone
    /\ piece[GetRootPiece(model)].children # << >>
    /\ model.mins # piece[GetRootPiece(model)].mins
    /\ \E p \in MapPieces \ Reachable :
          /\ piece[p].hasGeometryData
          /\ VMin(model.mins, piece[p].mins) # model.mins

\* The piece p had its goffset computed by the bounds pass and owns a box
\* collision volume as large as its local bounds and centered in them.
HasBoxVolume(p) ==
    /\ p \in Range(dimCalls)
    /\ Len(piece[p].colvol) = 1
    /\ piece[p].colvol[1].type = "box"
    /\ piece[p].colvol[1].scales = VSub(piece[p].maxs, piece[p].mins)
    /\ VAdd(piece[p].colvol[1].offsets, piece[p].colvol[1].offsets)
           = VAdd(piece[p].maxs, piece[p].mins)

\* C14 as claimed: after Load every piece of the piece map had its goffset
\* computed and owns its box collision volume, the pieces left detached by a
\* missing parent or on a cycle of declared parents too.
C14_VolumeForEveryMapPiece ==
    pc = "done" => \A p \in MapPieces : HasBoxVolume(p)

\* C14, amended: after Load every piece reached from the root piece by child
\* links had its goffset computed and owns its box collision volume; every
\* other piece, a piece left detached by a missing parent or on a cycle of
\* declared parents among them, was not visited and owns no collision volume.
C14_VolumeForHierarchy ==
    pc = "done" =>
        /\ \A p \in Reachable : HasBoxVolume(p)
        /\ \A p \in DOMAIN piece \ Reachable :
              p \notin Range(dimCalls) /\ piece[p].colvol = << >>

\* Load has ended with a volume off the origin for a piece below the root,
\* and with a piece of the piece map left outside the hierarchy because its
\* declared parent is missing.
C14_Witness ==
    /\ pc = "done"
    /\ \E p \in Reachable :
          /\ piece[p].parent # NULL
          /\ piece[p].colvol[1].offsets # ZeroVector
    /\ \E p \in MapPieces \ Reachable : MissingLogged(p)

-----------------------------------------------------------------------------
(* The order of the children *)

\* The nodes at and below node n, and at and below the nodes ns, in the order
\* the depth-first traversal of LoadPiece comes to them.
RECURSIVE VisitOrder(_)
RECURSIVE VisitOrderOfAll(_)
VisitOrder(n) == <<n>> \o VisitOrderOfAll(Node(n).mChildren)

VisitOrderOfAll(ns) ==
    IF ns = << >> THEN << >>
    ELSE VisitOrder(Head(ns)) \o VisitOrderOfAll(Tail(ns))

\* The place of node n in the traversal of the scene tree.
VisitIndex(n) ==
    LET order == VisitOrder(scene.mRootNode)
    IN  CHOOSE i \in DOMAIN order : order[i] = n

\* C15 as claimed: after BuildPieceHierarchy every child sequence lists the
\* children in the order the traversal visited their nodes.
C15_ChildrenInVisitOrder ==
    AfterHierarchy =>
        \A p \in DOMAIN piece :
        \A i, j \in DOMAIN piece[p].children :
            i < j => VisitIndex(piece[p].children[i])
                         < VisitIndex(piece[p].children[j])

\* C15, amended: after BuildPieceHierarchy every child sequence lists the
\* children in the ascending order of their names, the order in which the
\* loop over the piece map comes to them.
C15_ChildrenInNameOrder ==
    AfterHierarchy =>
        \A p \in DOMAIN piece :
        \A i, j \in DOMAIN piece[p].children :
            i < j => StrLess(piece[piece[p].children[i]].name,
                             piece[piece[p].children[j]].name)

\* Load has ended with two children whose names stand in the other order
\* than their nodes.
C15_Witness ==
    /\ pc = "done"
    /\ \E p \in DOMAIN piece :
       \E i, j \in DOMAIN piece[p].children :
          /\ i < j
          /\ VisitIndex(piece[p].children[j]) < VisitIndex(piece[p].children[i])

-----------------------------------------------------------------------------
(* The model's properties *)

\* The bounds as the bounds pass leaves them, from the pieces it visits.
BoundsMins == VLeast({NewModel.mins} \cup MovedMins(Reachable))

BoundsMaxs == VGreatest({NewModel.maxs} \cup MovedMaxs(Reachable))

\* C16: after CalculateModelProperties the height is the "height" of the
\* meta-file when it has one and else the maxs.y the bounds pass computed,
\* whatever "maxs" the meta-file gives; the radius is the "radius" of the
\* meta-file when it has one and else the length of the component-wise
\* maximum of |mins| and |maxs| of those bounds; drawRadius is the radius.
C16_HeightAndRadius ==
    pc = "done" =>
        /\ model.height =
              IF KeyExists(modelTable, "height") THEN modelTable.height
              ELSE BoundsMaxs.y
        /\ model.radius =
              IF KeyExists(modelTable, "radius") THEN modelTable.radius
              ELSE [sqrtOf |->
                     SqLength(Vec(Max2(Fabs(BoundsMaxs.x), Fabs(BoundsMins.x)),
                                  Max2(Fabs(BoundsMaxs.y), Fabs(BoundsMins.y)),
                                  Max2(Fabs(BoundsMaxs.z), Fabs(BoundsMins.z))))]
        /\ model.drawRadius = model.radius

\* Load has ended for a model of several pieces whose meta-file overrides
\* "mins" and "maxs" and gives neither "height" nor "radius".
C16_Witness ==
    /\ pc = "done"
    /\ piece[GetRootPiece(model)].children # << >>
    /\ KeyExists(modelTable, "maxs") /\ KeyExists(modelTable, "mins")
    /\ ~KeyExists(modelTable, "height") /\ ~KeyExists(modelTable, "radius")
    /\ model.height # model.maxs.y
    /\ model.height = BoundsMaxs.y

-----------------------------------------------------------------------------
(* The names of the pieces *)

\* The name SetPieceName starts from for node n: the node's name, or the
\* placeholder of the root or of another piece when the node has none.
BaseName(n) ==
    IF Node(n).mName # "" THEN Node(n).mName
    ELSE IF Node(n).mParent = NULL THEN "$$root$$" ELSE "$$piece$$"

\* The number i < 100 in two decimal digits.
TwoDigits(i) ==
    SubSeq("0123456789", (i \div 10) + 1, (i \div 10) + 1)
        \o SubSeq("0123456789", (i % 10) + 1, (i % 10) + 1)

\* C17: a step that creates the piece of a node gives it the node's name (or
\* "$$root$$" or "$$piece$$" for a node without name) as it is when that
\* name is no key of the piece map, and else that name followed by the two
\* digits of the least i >= 0 for which the suffixed name is no key; the
\* search ends within as many rounds as the map has keys, and the name given
\* is no key of the piece map when it is given.
C17_SetPieceName ==
    [][DOMAIN piece' # DOMAIN piece =>
          LET n    == CalledNode
              keys == DOMAIN model.pieceMap
              name == piece'[n].name
          IN  /\ name \notin keys
              /\ BaseName(n) \notin keys => name = BaseName(n)
              /\ BaseName(n) \in keys =>
                    \E i \in 0..Cardinality(keys) :
                       /\ name = BaseName(n) \o TwoDigits(i)
                       /\ \A j \in 0..(i - 1) :
                             (BaseName(n) \o TwoDigits(j)) \in keys]_vars

\* The Piece Builder pass has ended with a name kept as it was, a name that
\* got the suffix "00" and a name that got the suffix "01" as "00" was taken.
C17_Witness ==
    /\ Built
    /\ \E p, q, r \in Live :
          /\ piece[p].name = Node(p).mName
          /\ Node(p).mParent # NULL
          /\ piece[q].name = Node(q).mName \o "00"
          /\ piece[r].name = Node(r).mName \o "01"

-----------------------------------------------------------------------------
(* The geometry of the pieces *)

\* The meshes of node n, in the node's order.
MeshesOf(n) == [j \in DOMAIN Node(n).mMeshes |-> scene.mMeshes[Node(n).mMeshes[j]]]

\* The number of vertices of the first j of the meshes ms.
RECURSIVE VertexCount(_, _)
VertexCount(ms, j) ==
    IF j = 0 THEN 0 ELSE VertexCount(ms, j - 1) + Len(ms[j].mVertices)

\* The indices of the faces fs that have three of them, each raised by base.
RECURSIVE TriangleIndices(_, _)
TriangleIndices(fs, base) ==
    IF fs = << >> THEN << >>
    ELSE (IF Len(Head(fs)) = 3
          THEN <<base + Head(fs)[1], base + Head(fs)[2], base + Head(fs)[3]>>
          ELSE << >>) \o TriangleIndices(Tail(fs), base)

\* The draw indices of the first j of the meshes ms.
RECURSIVE DrawIndices(_, _)
DrawIndices(ms, j) ==
    IF j = 0 THEN << >>
    ELSE DrawIndices(ms, j - 1)
             \o TriangleIndices(ms[j].mFaces, VertexCount(ms, j - 1))

\* C18: a piece built from a node with the meshes m1..mk has as many
\* vertices as the meshes have together; its draw indices are, in the order
\* of the meshes and of their faces, the three indices of every face of
\* three, an index of mesh mj raised by the number of vertices of
\* m1..m(j-1), and faces of another arity add none; so the list's length is
\* a multiple of 3, every index is less than the number of vertices, and the
\* piece has geometry data exactly if it has a vertex.
C18_LoadPieceGeometry ==
    \A p \in Live :
        LET ms == MeshesOf(p)
        IN  /\ Len(piece[p].vertices) = VertexCount(ms, Len(ms))
            /\ piece[p].vertexDrawIndices = DrawIndices(ms, Len(ms))
            /\ Len(piece[p].vertexDrawIndices) % 3 = 0
            /\ \A k \in DOMAIN piece[p].vertexDrawIndices :
                  /\ piece[p].vertexDrawIndices[k] >= 0
                  /\ piece[p].vertexDrawIndices[k] < Len(piece[p].vertices)
            /\ piece[p].hasGeometryData <=> piece[p].vertices # << >>

\* A piece was built from two meshes, the first with vertices and with a
\* face that is no triangle, the second with a triangle whose indices were
\* raised; another piece has vertices and no triangle.
C18_Witness ==
    /\ \E p \in Live :
          /\ Len(MeshesOf(p)) = 2
          /\ \E f \in Range(MeshesOf(p)[1].mFaces) : Len(f) # 3
          /\ \E k \in DOMAIN piece[p].vertexDrawIndices :
                piece[p].vertexDrawIndices[k] >= Len(MeshesOf(p)[1].mVertices)
          /\ Len(MeshesOf(p)[1].mVertices) > 0
    /\ \E p \in Live :
          piece[p].hasGeometryData /\ piece[p].vertexDrawIndices = << >>

-----------------------------------------------------------------------------
(* The end of the bounds pass *)

\* The piece p lies on a cycle of child links.
OnCycle(p) == p \in ReachFrom(Range(piece[p].children))

\* C19: after BuildPieceHierarchy a piece is in at most one child sequence
\* and at most once in it, and the root piece is in none; so the calls of
\* CalculateModelDimensions, which start at the root piece and follow the
\* child sequences, come to an end and no piece is called for twice,
\* whatever parents the meta-file declares, cycles among them.  (Load ends
\* in a crash when the root piece was deleted as a marker: C9.)
C19_BoundsPassTerminates ==
    /\ [](AfterHierarchy =>
            /\ \A q, r \in DOMAIN piece :
               \A i \in DOMAIN piece[q].children :
               \A j \in DOMAIN piece[r].children :
                  piece[q].children[i] = piece[r].children[j] =>
                      q = r /\ i = j
            /\ \A q \in DOMAIN piece :
                  GetRootPiece(model) \notin Range(piece[q].children))
    /\ [](\A i, j \in DOMAIN dimCalls : dimCalls[i] = dimCalls[j] => i = j)
    /\ [](dimCalls # << >> => Range(dimCalls) \subseteq Reachable)
    /\ pc = "CalculateModelProperties" ~>
           \/ pc = "ModelProperties"
           \/ pc = "crashed" /\ GetRootPiece(model) \in deleted

\* Load has ended, the bounds pass having been through the root piece, with
\* two pieces that are each other's parent beside it.
C19_Witness ==
    /\ pc = "done"
    /\ dimCalls = <<GetRootPiece(model)>>
    /\ \E p, q \in MapPieces :
          /\ p # q
          /\ piece[p].parent = q /\ piece[q].parent = p
          /\ OnCycle(p)

====
